---- MODULE Spec2Model ----
(***************************************************************************)
(* ElectricEye: the per-run execution cache used by the auditors           *)
(* (Amazon_DAX_Auditor.py, ElectricASM_EC2_Auditor.py) and the VPC flow    *)
(* logs remediation playbook (VPC_Flow_Logs_Playbook.py).                  *)
(***************************************************************************)
EXTENDS Integers, Sequences, FiniteSets, TLC

VARIABLES
    \* ---- execution cache (auditors) ----
    cache,        \* the dict shared by the checks of one run: key -> payload
    cpc,          \* position of each check inside the fetch helper it called
    ckey,         \* the cache key of the helper a check is executing
    response,     \* the helper's local `response` (result of cache.get)
    fetched,      \* the value the provider returned to the helper, before it is stored
    ret,          \* the value the helper last returned to the check
    fetchCount,   \* per key: how often the provider fetch was invoked
    observed,     \* per key: the payloads returned to checks so far
    ncalls,       \* number of helper calls made in this run
    \* ---- remediation playbook (lambda_handler) ----
    pc,           \* position of lambda_handler
    fi,           \* number of findings of the event taken by the outer loop
    ri,           \* number of resources of the finding taken by the inner loop
    finding,      \* the current finding: [Id, AwsAccountId]
    vpcId,        \* the current resource's VPC id
    creds,        \* the credentials the logs/iam/ec2 clients are built with
    ctx,          \* outputs of earlier steps: logGroupArn, logGroupName, cwlPolicyArn, ...
    calls,        \* the provider calls issued for the current resource, in order
    error,        \* the error the handler raised
    printed,      \* what the except blocks printed for the current resource
    earlier,      \* calls issued for the earlier resources of the current finding
    aws,          \* provider state per account: log groups, policies, roles, ...
    \* ---- auditor checks (Amazon_DAX_Auditor, ElectricASM_EC2_Auditor) ----
    apc,          \* position of the check being evaluated
    acheck,       \* the check function being evaluated
    now,          \* the clock: iso8601Time of the evaluation that started last
    ran,          \* the checks already evaluated in this audit run (one process)
    records,      \* the records the fetch helper returned to the check
    ai,           \* number of records the check's loop has taken
    yielded,      \* the findings yielded for the record the loop took last
    aerror,       \* the exception that left the check
    prior,        \* a finding yielded earlier (this run or an earlier one)
    scanned       \* the hosts passed to scan_host for the record taken last

cacheVars == <<cache, cpc, ckey, response, fetched, ret, fetchCount, observed, ncalls>>
remVars == <<pc, fi, ri, finding, vpcId, creds, ctx, calls, error, printed, earlier, aws>>
auditVars == <<apc, acheck, now, ran, records, ai, yielded, aerror, prior, scanned>>
vars == <<cache, cpc, ckey, response, fetched, ret, fetchCount, observed, ncalls,
          pc, fi, ri, finding, vpcId, creds, ctx, calls, error, printed, earlier, aws,
          apc, acheck, now, ran, records, ai, yielded, aerror, prior, scanned>>

----------------------------------------------------------------------------
(* Bounds *)

NumChecks == 2
MaxCalls == 3
MaxListing == 2
MaxFindings == 2
MaxResources == 2
MaxEvaluations == 2
MaxPorts == 2

----------------------------------------------------------------------------
(* Execution cache *)

Checks == 1..NumChecks

\* The keys the three helpers use: cache.get("describe_clusters"),
\* cache.get("instances"), cache.get("describe_load_balancers").
Keys == {"describe_clusters", "instances", "describe_load_balancers"}

\* A listing of n resources; the provider may return any of them on any call.
Listings == {[i \in 1..n |-> i] : n \in 0..MaxListing}

\* dict.get on a missing key.
None == [kind |-> "none", items |-> <<>>]

\* What the provider fetch of a helper evaluates to: ec2_paginate builds a
\* list of instances, the two describe helpers store the client's response
\* dict (which holds the listing and the response metadata).
ProviderPayload(k, listing) ==
    IF k = "instances"
    THEN [kind |-> "list", items |-> listing]
    ELSE [kind |-> "dict", items |-> listing]

\* Python truth value, as tested by `if response:`: None and the empty list
\* are false, a non-empty list and a non-empty dict are true.
Truthy(v) ==
    CASE v.kind = "none" -> FALSE
      [] v.kind = "list" -> Len(v.items) > 0
      [] v.kind = "dict" -> TRUE

NoCheckInHelper == \A q \in Checks : cpc[q] = "idle"

\* A check calls a fetch helper.
CallHelper(p, k) ==
    /\ cpc[p] = "idle"
    /\ ncalls < MaxCalls
    /\ ncalls' = ncalls + 1
    /\ ckey' = [ckey EXCEPT ![p] = k]
    /\ cpc' = [cpc EXCEPT ![p] = "get"]
    /\ UNCHANGED <<cache, response, fetched, ret, fetchCount, observed>>
    /\ UNCHANGED remVars
    /\ UNCHANGED auditVars

\* Checks run one after the other: a helper is entered only when no other
\* check is inside one.
SeqCallHelper(p, k) ==
    /\ NoCheckInHelper
    /\ CallHelper(p, k)

\* response = cache.get(key); if response: return response
CacheGet(p) ==
    /\ cpc[p] = "get"
    /\ response' = [response EXCEPT ![p] = cache[ckey[p]]]
    /\ IF Truthy(cache[ckey[p]])
       THEN /\ ret' = [ret EXCEPT ![p] = cache[ckey[p]]]
            /\ observed' = [observed EXCEPT ![ckey[p]] = @ \cup {cache[ckey[p]]}]
            /\ cpc' = [cpc EXCEPT ![p] = "idle"]
       ELSE /\ cpc' = [cpc EXCEPT ![p] = "fetch"]
            /\ UNCHANGED <<ret, observed>>
    /\ UNCHANGED <<cache, ckey, fetched, fetchCount, ncalls>>
    /\ UNCHANGED remVars
    /\ UNCHANGED auditVars

\* dax.describe_clusters() / paginator.paginate(...) / elbv2.describe_load_balancers()
\* (ec2.get_paginator returns a paginator object, so `if paginator:` is taken.)
ProviderFetch(p) ==
    /\ cpc[p] = "fetch"
    /\ \E l \in Listings :
          fetched' = [fetched EXCEPT ![p] = ProviderPayload(ckey[p], l)]
    /\ fetchCount' = [fetchCount EXCEPT ![ckey[p]] = @ + 1]
    /\ cpc' = [cpc EXCEPT ![p] = "store"]
    /\ UNCHANGED <<cache, ckey, response, ret, observed, ncalls>>
    /\ UNCHANGED remVars
    /\ UNCHANGED auditVars

\* What a helper leaves its caller with when the provider call raised: the
\* exception, not a value.
Raised == [kind |-> "raised", items |-> <<>>]

\* Variant: the helper stores an empty response before it lets the error go.
CacheAfterRaiseStored(c, k) == [c EXCEPT ![k] = ProviderPayload("describe_clusters", <<>>)]

\* The cache dict after the right-hand side of `cache[key] = <provider call>`
\* raised (or paginator.paginate raised before line 45): the subscript
\* assignment is never executed.
CacheAfterRaise(c, k) == c

\* The provider call raises (botocore ClientError, a connection error): no
\* helper has a try statement, so the exception leaves the helper.
FetchRaises(p) ==
    /\ cpc[p] = "fetch"
    /\ fetchCount' = [fetchCount EXCEPT ![ckey[p]] = @ + 1]
    /\ cache' = CacheAfterRaise(cache, ckey[p])
    /\ ret' = [ret EXCEPT ![p] = Raised]
    /\ cpc' = [cpc EXCEPT ![p] = "idle"]
    /\ UNCHANGED <<ckey, response, fetched, observed, ncalls>>
    /\ UNCHANGED remVars
    /\ UNCHANGED auditVars

\* cache[key] = <the fetched value>
CacheStore(p) ==
    /\ cpc[p] = "store"
    /\ cache' = [cache EXCEPT ![ckey[p]] = fetched[p]]
    /\ cpc' = [cpc EXCEPT ![p] = "return"]
    /\ UNCHANGED <<ckey, response, fetched, ret, fetchCount, observed, ncalls>>
    /\ UNCHANGED remVars
    /\ UNCHANGED auditVars

\* return cache[key]
ReturnStored(p) ==
    /\ cpc[p] = "return"
    /\ ret' = [ret EXCEPT ![p] = cache[ckey[p]]]
    /\ observed' = [observed EXCEPT ![ckey[p]] = @ \cup {cache[ckey[p]]}]
    /\ cpc' = [cpc EXCEPT ![p] = "idle"]
    /\ UNCHANGED <<cache, ckey, response, fetched, fetchCount, ncalls>>
    /\ UNCHANGED remVars
    /\ UNCHANGED auditVars

CacheInit ==
    /\ cache = [k \in Keys |-> None]
    /\ cpc = [p \in Checks |-> "idle"]
    /\ ckey = [p \in Checks |-> "instances"]
    /\ response = [p \in Checks |-> None]
    /\ fetched = [p \in Checks |-> None]
    /\ ret = [p \in Checks |-> None]
    /\ fetchCount = [k \in Keys |-> 0]
    /\ observed = [k \in Keys |-> {}]
    /\ ncalls = 0

----------------------------------------------------------------------------
(* Remediation playbook: the collaborators (STS, CloudWatch Logs, IAM, EC2) *)

\* sts.get_caller_identity()['Account'] of the invoking function, and a member account.
masterAccountId == "999999999999"
memberAccountId == "111111111111"
Accounts == {masterAccountId, memberAccountId}

\* VPC ids as character sequences; the second id extends the first.
Vpcs == {<<1>>, <<1, 2>>}

\* 'VPCFlowLogs/' + vpcId, 'VPCFlowLogsPolicy-' + vpcId, 'VPCFlowLogsRole-' + vpcId
LogGroupNameOf(v) == [lit |-> "VPCFlowLogs/", vpc |-> v]
PolicyNameOf(v) == [lit |-> "VPCFlowLogsPolicy-", vpc |-> v]
RoleNameOf(v) == [lit |-> "VPCFlowLogsRole-", vpc |-> v]

Arn(account, name) == [account |-> account, name |-> name]

UnsetName == [lit |-> "unset", vpc |-> <<>>]
UnsetArn == Arn("unset", UnsetName)
NoError == [step |-> "none", kind |-> "none"]

\* The identity of the function itself (boto3.client(...) without keys) and
\* the credentials an assume_role call returns: each call issues a new
\* session token, here named after the loop position that requested it.
Ambient == [account |-> masterAccountId, token |-> <<>>]
AssumedCredentials(owner, f, r) == [account |-> owner, token |-> <<f, r>>]

EmptyAccount ==
    [logGroups |-> {}, policies |-> {}, roles |-> {}, attached |-> {}, flowLogs |-> {}]

IsPrefix(s, t) == Len(s) <= Len(t) /\ \A i \in 1..Len(s) : s[i] = t[i]

\* ASCII order of two names with the same literal part.
RECURSIVE SeqLess(_, _)
SeqLess(s, t) ==
    IF s = <<>> THEN t # <<>>
    ELSE IF t = <<>> THEN FALSE
    ELSE IF Head(s) # Head(t) THEN Head(s) < Head(t)
    ELSE SeqLess(Tail(s), Tail(t))

RECURSIVE SortedNames(_)
SortedNames(S) ==
    IF S = {} THEN <<>>
    ELSE LET m == CHOOSE x \in S : \A y \in S \ {x} : SeqLess(x.vpc, y.vpc)
         IN <<m>> \o SortedNames(S \ {m})

\* logs.describe_log_groups(logGroupNamePrefix=...): the groups of the account
\* whose name starts with the prefix, ASCII-sorted by name.
DescribeLogGroupsResponse(account, prefix) ==
    LET hit == {g \in aws[account].logGroups :
                    g.lit = prefix.lit /\ IsPrefix(prefix.vpc, g.vpc)}
        names == SortedNames(hit)
    IN [i \in 1..Len(names) |->
            [arn |-> Arn(account, names[i]), logGroupName |-> names[i]]]

\* Variant: the last entry of the response is taken.
LastLogGroup(logGroups) == logGroups[Len(logGroups)]

\* response['logGroups'][0]
SelectedLogGroup(logGroups) == logGroups[1]

\* What iam.create_policy and iam.create_role return: response['Policy'],
\* response['Role'].
CreatePolicyResponse(account, name) == [Arn |-> Arn(account, name)]
CreateRoleResponse(account, name) == [RoleName |-> name, Arn |-> Arn(account, name)]

PolicyExists(account, name) == \E p \in aws[account].policies : p.name = name

\* The VPC has flow logs delivered to a log group of the account.
Remediated(account, v) == \E f \in aws[account].flowLogs : f.vpc = v

----------------------------------------------------------------------------
(* Remediation playbook: lambda_handler *)

Provisioning ==
    {"create_log_group", "describe_log_groups", "create_policy", "create_role",
     "attach_role_policy", "create_flow_logs"}

\* The statements of one pipeline in source order.
StepOrder ==
    <<"create_log_group", "describe_log_groups", "create_policy", "create_role",
      "attach_role_policy", "create_flow_logs", "update_findings">>

StepIndex(step) == CHOOSE k \in 1..Len(StepOrder) : StepOrder[k] = step

\* Variant: the role is created before the policy.
AfterRoleFirst(step) ==
    CASE step = "describe_log_groups" -> "create_role"
      [] step = "create_role" -> "create_policy"
      [] step = "create_policy" -> "attach_role_policy"
      [] OTHER -> StepOrder[StepIndex(step) + 1]

\* Variant: a failed assume_role is attempted once more before it raises.
AssumeRoleUncaughtRetry == IF calls = <<>> THEN "assume_role" ELSE "raised"

\* sts.assume_role is not inside a try statement: its exception leaves the handler.
AssumeRoleUncaught == "raised"

\* Variant: the branch test always takes the cross-account branch.
NeedsAssumeRoleAlways(owner, master) == TRUE

\* if findingOwner != masterAccountId:
NeedsAssumeRole(owner, master) == owner # master

\* The try statements of the cross-account branch (lines 49-150), in source
\* order: the client call, the variables its arguments are built from, and
\* what its except block does after print(e).
CrossAccountSteps ==
    <<[op |-> "create_log_group", reads |-> {"vpcId"}, handler |-> "raise"],
      [op |-> "describe_log_groups", reads |-> {"vpcId"}, handler |-> "raise"],
      [op |-> "create_policy", reads |-> {"vpcId", "logGroupArn"}, handler |-> "raise"],
      [op |-> "create_role", reads |-> {"vpcId"}, handler |-> "raise"],
      [op |-> "attach_role_policy", reads |-> {"cwlRoleName", "cwlPolicyArn"},
       handler |-> "raise"],
      [op |-> "create_flow_logs", reads |-> {"cwlRoleArn", "logGroupName", "vpcId"},
       handler |-> "raise"],
      [op |-> "update_findings",
       reads |-> {"findingId", "logGroupName", "lambdaFunctionName"},
       handler |-> "print"]>>

\* Variant: the local branch swallows a failure of create_role.
LocalStepsLenient ==
    [k \in 1..Len(CrossAccountSteps) |->
        IF CrossAccountSteps[k].op = "create_role"
        THEN [CrossAccountSteps[k] EXCEPT !.handler = "print"]
        ELSE CrossAccountSteps[k]]

\* The try statements of the local branch (lines 155-256), in source order.
LocalSteps ==
    <<[op |-> "create_log_group", reads |-> {"vpcId"}, handler |-> "raise"],
      [op |-> "describe_log_groups", reads |-> {"vpcId"}, handler |-> "raise"],
      [op |-> "create_policy", reads |-> {"vpcId", "logGroupArn"}, handler |-> "raise"],
      [op |-> "create_role", reads |-> {"vpcId"}, handler |-> "raise"],
      [op |-> "attach_role_policy", reads |-> {"cwlRoleName", "cwlPolicyArn"},
       handler |-> "raise"],
      [op |-> "create_flow_logs", reads |-> {"cwlRoleArn", "logGroupName", "vpcId"},
       handler |-> "raise"],
      [op |-> "update_findings",
       reads |-> {"findingId", "logGroupName", "lambdaFunctionName"},
       handler |-> "print"]>>

\* The branch lambda_handler takes for the current finding, and its statements.
Branch ==
    IF NeedsAssumeRole(finding.AwsAccountId, masterAccountId)
    THEN "cross_account" ELSE "local"

OtherBranch(b) == IF b = "cross_account" THEN "local" ELSE "cross_account"

BranchSteps(b) == IF b = "cross_account" THEN CrossAccountSteps ELSE LocalSteps

StepOf(b, step) ==
    BranchSteps(b)[CHOOSE k \in 1..Len(BranchSteps(b)) : BranchSteps(b)[k].op = step]

\* The statement that follows the try statement of `step` in the branch taken.
After(step) ==
    LET steps == BranchSteps(Branch)
        k == CHOOSE n \in 1..Len(steps) : steps[n].op = step
    IN steps[k + 1].op

\* Variant: clients built for an earlier finding are kept and used again.
ClientCredentialsCached(memberAcct) == IF creds # Ambient THEN creds ELSE memberAcct

\* Variant: the clients of the cross-account branch are built without keys.
ClientCredentialsDropped(memberAcct) == Ambient

\* The logs, iam and ec2 clients of the cross-account branch are built from
\* the keys and session token of memberAcct['Credentials'].
ClientCredentials(memberAcct) == memberAcct

\* Variant: the assignment is missing, the variable keeps its earlier value.
CwlPolicyArnKept(resp) == ctx.cwlPolicyArn

\* cwlPolicyArn = str(response['Policy']['Arn'])
CwlPolicyArn(resp) == resp.Arn

\* cwlRoleName = str(response['Role']['RoleName']); cwlRoleArn = str(response['Role']['Arn'])
CwlRoleName(resp) == resp.RoleName
CwlRoleArn(resp) == resp.Arn

\* Variant: the securityhub client is rebuilt with the keys of the branch.
SecurityHubCredentialsOfBranch == creds

\* securityhub = boto3.client('securityhub'), created once without keys.
SecurityHubCredentials == Ambient

\* Variant: the finding is updated but left active.
UpdateFindingsArgsActive(findingId, logGroupName) ==
    [Id |-> findingId, NoteLogGroup |-> logGroupName, RecordState |-> "ACTIVE"]

\* The arguments of securityhub.update_findings: Filters on the finding's Id,
\* a Note whose text names logGroupName, RecordState='ARCHIVED'.
UpdateFindingsArgs(findingId, logGroupName) ==
    [Id |-> findingId, NoteLogGroup |-> logGroupName, RecordState |-> "ARCHIVED"]

\* Variant: an except block that waits instead of re-raising.
StepExceptHang(step, resume, a) == [pc |-> "waiting", aws |-> a]

\* Variant: an existing log group is reused, the pipeline goes on.
StepExceptReuse(step, resume, a) ==
    [pc |-> IF step = "create_log_group" THEN resume ELSE "raised", aws |-> a]

\* Variant: an except block that gives up the resource and goes on with the next.
StepExceptNextResource(step, resume, a) == [pc |-> "next_resource", aws |-> a]

\* Variant: an except block that prints and does not re-raise.
StepExceptSwallow(step, resume, a) == [pc |-> resume, aws |-> a]

\* Variant: an except block that deletes the log group before re-raising.
StepExceptRollback(step, resume, a) ==
    [pc |-> "raised",
     aws |-> [a EXCEPT ![creds.account].logGroups = @ \ {LogGroupNameOf(vpcId)}]]

\* except Exception as e: print(e); raise  -- the six provisioning steps.
\* `resume` is the position after the try statement, `a` the provider state.
StepExcept(step, resume, a) ==
    [pc |-> IF StepOf(Branch, step).handler = "raise" THEN "raised" ELSE resume,
     aws |-> a]

\* Variant: the reporting failure is escalated.
ReportExceptRaise(resume) == "raised"

\* except Exception as e: print(e)  -- around securityhub.update_findings.
ReportExcept(resume) ==
    IF StepOf(Branch, "update_findings").handler = "print" THEN resume ELSE "raised"

\* One entry of the call log: the operation, the credentials of the client
\* that issued it, its arguments, the exception it raised ("none": it
\* returned), what it returned, and the finding and resource it was issued for.
Call(op, c, args, err, out) ==
    [op |-> op, creds |-> c, args |-> args, err |-> err, out |-> out,
     pipeline |-> [Id |-> finding.Id, AwsAccountId |-> finding.AwsAccountId,
                   vpc |-> vpcId]]

Returned(c) == c.err = "none"

CallIndexes == 1..Len(calls)

\* How many calls of the log are of the given operations.
CountCalls(ops) == Cardinality({i \in CallIndexes : calls[i].op \in ops})

NoneEarlier == [assume_role |-> 0, provisioning |-> 0, update_findings |-> 0]

\* A provisioning call raised `kind`: its except block runs.
StepFails(step, args, kind, resume) ==
    LET h == StepExcept(step, resume, aws)
    IN /\ calls' = Append(calls, Call(step, creds, args, kind, <<>>))
       /\ printed' = Append(printed, [step |-> step, kind |-> kind])
       /\ pc' = h.pc
       /\ aws' = h.aws
       /\ error' = IF h.pc = "raised" THEN [step |-> step, kind |-> kind] ELSE error
       /\ UNCHANGED <<fi, ri, finding, vpcId, creds, ctx>>

\* lambda_handler(event, context) is invoked: lines 22-29.
Invoke ==
    /\ pc \in {"idle", "returned", "raised"}
    /\ fi' = 0
    /\ ri' = 0
    /\ calls' = <<>>
    /\ printed' = <<>>
    /\ earlier' = NoneEarlier
    /\ ctx' = [logGroupArn |-> UnsetArn, logGroupName |-> UnsetName,
               cwlPolicyArn |-> UnsetArn, cwlRoleName |-> UnsetName,
               cwlRoleArn |-> UnsetArn]
    /\ creds' = Ambient
    /\ finding' = [Id |-> 0, AwsAccountId |-> masterAccountId]
    /\ vpcId' = <<>>
    /\ \/ /\ pc' = "next_finding"
          /\ error' = NoError
       \/ /\ pc' = "raised"
          /\ error' = [step |-> "get_caller_identity", kind |-> "ProviderError"]
    /\ UNCHANGED aws
    /\ UNCHANGED cacheVars
    /\ UNCHANGED auditVars

\* for findings in securityHubEvent:
NextFinding ==
    /\ pc = "next_finding"
    /\ \/ /\ fi < MaxFindings
          /\ \E owner \in Accounts :
                finding' = [Id |-> fi + 1, AwsAccountId |-> owner]
          /\ fi' = fi + 1
          /\ ri' = 0
          /\ earlier' = NoneEarlier
          /\ pc' = "next_resource"
       \/ /\ pc' = "returned"
          /\ UNCHANGED <<fi, ri, finding, earlier>>
    /\ UNCHANGED <<vpcId, creds, ctx, calls, error, printed, aws>>
    /\ UNCHANGED cacheVars
    /\ UNCHANGED auditVars

\* for resources in findings['Resources']: ... if findingOwner != masterAccountId:
NextResource ==
    /\ pc = "next_resource"
    /\ \/ /\ ri < MaxResources
          /\ \E v \in Vpcs : vpcId' = v
          /\ ri' = ri + 1
          /\ calls' = <<>>
          /\ printed' = <<>>
          /\ earlier' =
                IF ri = 0 THEN NoneEarlier
                ELSE [assume_role |-> earlier.assume_role + CountCalls({"assume_role"}),
                      provisioning |-> earlier.provisioning + CountCalls(Provisioning),
                      update_findings |->
                          earlier.update_findings + CountCalls({"update_findings"})]
          /\ IF NeedsAssumeRole(finding.AwsAccountId, masterAccountId)
             THEN /\ pc' = "assume_role"
                  /\ UNCHANGED creds
             ELSE /\ pc' = "create_log_group"
                  /\ creds' = Ambient
       \/ /\ pc' = "next_finding"
          /\ UNCHANGED <<ri, vpcId, creds, calls, printed, earlier>>
    /\ UNCHANGED <<fi, finding, ctx, error, aws>>
    /\ UNCHANGED cacheVars
    /\ UNCHANGED auditVars

\* memberAcct = sts.assume_role(RoleArn=...findingOwner...); not inside a try.
AssumeRole ==
    /\ pc = "assume_role"
    /\ LET args == [account |-> finding.AwsAccountId, role |-> "XA-ElectricEye-Response"]
           memberAcct == AssumedCredentials(finding.AwsAccountId, fi, ri)
       IN \/ /\ calls' = Append(calls, Call("assume_role", Ambient, args, "none",
                                  memberAcct))
             /\ creds' = ClientCredentials(memberAcct)
             /\ pc' = "create_log_group"
             /\ UNCHANGED error
          \/ /\ calls' = Append(calls, Call("assume_role", Ambient, args, "ProviderError", <<>>))
             /\ pc' = AssumeRoleUncaught
             /\ error' = IF pc' = "raised"
                         THEN [step |-> "assume_role", kind |-> "ProviderError"]
                         ELSE error
             /\ UNCHANGED creds
    /\ UNCHANGED <<fi, ri, finding, vpcId, ctx, printed, aws>>
    /\ UNCHANGED earlier
    /\ UNCHANGED cacheVars
    /\ UNCHANGED auditVars

\* response = logs.create_log_group(logGroupName='VPCFlowLogs/' + vpcId)
CreateLogGroup ==
    /\ pc = "create_log_group"
    /\ LET name == LogGroupNameOf(vpcId)
           args == [logGroupName |-> name]
           exists == name \in aws[creds.account].logGroups
       IN \/ /\ ~exists
             /\ aws' = [aws EXCEPT ![creds.account].logGroups = @ \cup {name}]
             /\ calls' = Append(calls, Call("create_log_group", creds, args, "none", <<>>))
             /\ pc' = After("create_log_group")
             /\ UNCHANGED <<fi, ri, finding, vpcId, creds, ctx, error, printed>>
          \/ \E kind \in {"ProviderError"} \cup
                         (IF exists THEN {"ResourceAlreadyExistsException"} ELSE {}) :
                StepFails("create_log_group", args, kind, After("create_log_group"))
    /\ UNCHANGED earlier
    /\ UNCHANGED cacheVars
    /\ UNCHANGED auditVars

\* response = logs.describe_log_groups(logGroupNamePrefix='VPCFlowLogs/' + vpcId)
\* logGroupArn = response['logGroups'][0]['arn'], logGroupName likewise
DescribeLogGroups ==
    /\ pc = "describe_log_groups"
    /\ LET prefix == LogGroupNameOf(vpcId)
           args == [logGroupNamePrefix |-> prefix]
           logGroups == DescribeLogGroupsResponse(creds.account, prefix)
       IN \/ /\ Len(logGroups) > 0
             /\ ctx' = [ctx EXCEPT !.logGroupArn = SelectedLogGroup(logGroups).arn,
                                   !.logGroupName = SelectedLogGroup(logGroups).logGroupName]
             /\ calls' = Append(calls, Call("describe_log_groups", creds, args, "none",
                                            logGroups))
             /\ pc' = After("describe_log_groups")
             /\ UNCHANGED <<fi, ri, finding, vpcId, creds, error, printed, aws>>
          \/ \E kind \in {"ProviderError"} \cup
                         (IF Len(logGroups) = 0 THEN {"IndexError"} ELSE {}) :
                StepFails("describe_log_groups", args, kind, After("describe_log_groups"))
    /\ UNCHANGED earlier
    /\ UNCHANGED cacheVars
    /\ UNCHANGED auditVars

\* response = iam.create_policy(PolicyName='VPCFlowLogsPolicy-' + vpcId, ...)
\* with "Resource": logGroupArn + "*"; cwlPolicyArn = response['Policy']['Arn']
CreatePolicy ==
    /\ pc = "create_policy"
    /\ LET name == PolicyNameOf(vpcId)
           args == [PolicyName |-> name, Resource |-> ctx.logGroupArn]
           exists == PolicyExists(creds.account, name)
           policy == CreatePolicyResponse(creds.account, name)
       IN \/ /\ ~exists
             /\ aws' = [aws EXCEPT ![creds.account].policies =
                            @ \cup {[name |-> name, Resource |-> ctx.logGroupArn]}]
             /\ ctx' = [ctx EXCEPT !.cwlPolicyArn = CwlPolicyArn(policy)]
             /\ calls' = Append(calls, Call("create_policy", creds, args, "none", policy))
             /\ pc' = After("create_policy")
             /\ UNCHANGED <<fi, ri, finding, vpcId, creds, error, printed>>
          \/ \E kind \in {"ProviderError"} \cup
                         (IF exists THEN {"EntityAlreadyExistsException"} ELSE {}) :
                StepFails("create_policy", args, kind, After("create_policy"))
    /\ UNCHANGED earlier
    /\ UNCHANGED cacheVars
    /\ UNCHANGED auditVars

\* response = iam.create_role(RoleName='VPCFlowLogsRole-' + vpcId, ...)
\* cwlRoleName = response['Role']['RoleName'], cwlRoleArn = response['Role']['Arn']
CreateRole ==
    /\ pc = "create_role"
    /\ LET name == RoleNameOf(vpcId)
           args == [RoleName |-> name]
           exists == name \in aws[creds.account].roles
           role == CreateRoleResponse(creds.account, name)
       IN \/ /\ ~exists
             /\ aws' = [aws EXCEPT ![creds.account].roles = @ \cup {name}]
             /\ ctx' = [ctx EXCEPT !.cwlRoleName = CwlRoleName(role),
                                   !.cwlRoleArn = CwlRoleArn(role)]
             /\ calls' = Append(calls, Call("create_role", creds, args, "none", role))
             /\ pc' = After("create_role")
             /\ UNCHANGED <<fi, ri, finding, vpcId, creds, error, printed>>
          \/ \E kind \in {"ProviderError"} \cup
                         (IF exists THEN {"EntityAlreadyExistsException"} ELSE {}) :
                StepFails("create_role", args, kind, After("create_role"))
    /\ UNCHANGED earlier
    /\ UNCHANGED cacheVars
    /\ UNCHANGED auditVars

\* response = iam.attach_role_policy(RoleName=cwlRoleName, PolicyArn=cwlPolicyArn)
AttachRolePolicy ==
    /\ pc = "attach_role_policy"
    /\ LET args == [RoleName |-> ctx.cwlRoleName, PolicyArn |-> ctx.cwlPolicyArn]
       IN \/ /\ aws' = [aws EXCEPT ![creds.account].attached =
                            @ \cup {<<ctx.cwlRoleName, ctx.cwlPolicyArn>>}]
             /\ calls' = Append(calls, Call("attach_role_policy", creds, args, "none", <<>>))
             /\ pc' = After("attach_role_policy")
             /\ UNCHANGED <<fi, ri, finding, vpcId, creds, ctx, error, printed>>
          \/ StepFails("attach_role_policy", args, "ProviderError", After("attach_role_policy"))
    /\ UNCHANGED earlier
    /\ UNCHANGED cacheVars
    /\ UNCHANGED auditVars

\* response = ec2.create_flow_logs(DeliverLogsPermissionArn=cwlRoleArn,
\*     LogGroupName=logGroupName, ResourceIds=[vpcId], ...)
CreateFlowLogs ==
    /\ pc = "create_flow_logs"
    /\ LET args == [DeliverLogsPermissionArn |-> ctx.cwlRoleArn,
                    LogGroupName |-> ctx.logGroupName, ResourceIds |-> <<vpcId>>]
       IN \/ /\ aws' = [aws EXCEPT ![creds.account].flowLogs =
                            @ \cup {[vpc |-> vpcId, role |-> ctx.cwlRoleArn,
                                     logGroupName |-> ctx.logGroupName]}]
             /\ calls' = Append(calls, Call("create_flow_logs", creds, args, "none", <<>>))
             /\ pc' = After("create_flow_logs")
             /\ UNCHANGED <<fi, ri, finding, vpcId, creds, ctx, error, printed>>
          \/ StepFails("create_flow_logs", args, "ProviderError", After("create_flow_logs"))
    /\ UNCHANGED earlier
    /\ UNCHANGED cacheVars
    /\ UNCHANGED auditVars

\* response = securityhub.update_findings(Filters={'Id': ... findingId ...},
\*     Note={'Text': '... being sent to ' + logGroupName + ' ...'}, RecordState='ARCHIVED')
UpdateFindings ==
    /\ pc = "update_findings"
    /\ LET args == UpdateFindingsArgs(finding.Id, ctx.logGroupName)
       IN \/ /\ calls' = Append(calls,
                                Call("update_findings", SecurityHubCredentials, args,
                                     "none", <<>>))
             /\ pc' = "next_resource"
             /\ UNCHANGED <<error, printed>>
          \/ /\ calls' = Append(calls,
                                Call("update_findings", SecurityHubCredentials, args,
                                     "ProviderError", <<>>))
             /\ printed' = Append(printed,
                                  [step |-> "update_findings", kind |-> "ProviderError"])
             /\ pc' = ReportExcept("next_resource")
             /\ error' = IF pc' = "raised"
                         THEN [step |-> "update_findings", kind |-> "ProviderError"]
                         ELSE error
    /\ UNCHANGED <<fi, ri, finding, vpcId, creds, ctx, aws>>
    /\ UNCHANGED earlier
    /\ UNCHANGED cacheVars
    /\ UNCHANGED auditVars

RemediationInit ==
    /\ pc = "idle"
    /\ fi = 0
    /\ ri = 0
    /\ finding = [Id |-> 0, AwsAccountId |-> masterAccountId]
    /\ vpcId = <<>>
    /\ creds = Ambient
    /\ ctx = [logGroupArn |-> UnsetArn, logGroupName |-> UnsetName,
              cwlPolicyArn |-> UnsetArn, cwlRoleName |-> UnsetName,
              cwlRoleArn |-> UnsetArn]
    /\ calls = <<>>
    /\ error = NoError
    /\ printed = <<>>
    /\ earlier = NoneEarlier
    /\ aws = [a \in Accounts |-> EmptyAccount]

----------------------------------------------------------------------------
(* Auditor checks: Amazon_DAX_Auditor.py and ElectricASM_EC2_Auditor.py *)

AuditChecks ==
    {"dax_encryption_at_rest_check", "dax_encryption_in_transit_check",
     "ec2_attack_surface_open_tcp_port_check", "elbv2_attack_surface_open_tcp_port_check"}

\* The cache key of the fetch helper a check calls: describe_clusters(cache),
\* ec2_paginate(cache), describe_load_balancers(cache).
HelperKeyOf(c) ==
    CASE c \in {"dax_encryption_at_rest_check", "dax_encryption_in_transit_check"}
              -> "describe_clusters"
      [] c = "ec2_attack_surface_open_tcp_port_check" -> "instances"
      [] c = "elbv2_attack_surface_open_tcp_port_check" -> "describe_load_balancers"

\* What a fetch helper returns when the provider answers with the listing `l`:
\* the cached payload if it is truthy, the fetched payload otherwise.
HelperReturn(k, l) == IF Truthy(cache[k]) THEN cache[k] ELSE ProviderPayload(k, l)

\* Python's None, where the code compares it with strings.
NoValue == "None"

\* Python's `a or b` on strings and None: a if a is truthy, b otherwise.
PyOr(a, b) == IF a \notin {"", NoValue} THEN a ELSE b

\* cluster["SSEDescription"]["Status"] and cluster["ClusterEndpointEncryptionType"]
SSEStatuses == {"ENABLING", "ENABLED", "DISABLING", "DISABLED"}
EndpointEncryptionTypes == {"NONE", "TLS"}

\* len(cluster["SecurityGroups"])
SecurityGroupCounts == {0, 1}

\* i["BlockDeviceMappings"]: no such key, an empty list, a first mapping
\* without "Ebs", a first mapping with "Ebs".
BlockDeviceMappingsShapes == {"absent", "empty", "no_ebs", "ebs"}

\* i["PublicIpAddress"]: no such key, None, the empty string, an address.
PublicIpAddresses == {"absent", NoValue, "", "203.0.113.10"}

\* lb["DNSName"]
DnsName == "alb.example.com"

\* lb["Scheme"], lb["Type"]
Schemes == {"internet-facing", "internal"}
LbTypes == {"application", "network"}

\* The ports of the scan, in the order of the -p argument of scan_host
\* (the first MaxPorts of them).
ScanPorts == SubSeq(<<22, 8089, 10250>>, 1, MaxPorts)

\* p["service"]["name"] and p["state"] as the scan reports them. The name
\* reported for a port the code names itself (8089, 10250, 5672, 4040) is
\* never read: one value stands for it.
ReportedNames == {"ssh", "splunkd"}
ReportedNamesOf(port) ==
    IF port \in {8089, 10250, 5672, 4040} THEN {"unknown"} ELSE ReportedNames
PortStates == {"open", "closed"}

\* scan_host returned None (the scan raised KeyError).
NoScan == <<[portid |-> 0, name |-> "", state |-> ""]>>

\* scan_host returned results that have no entry for the host it was given.
NoHostEntry == <<[portid |-> 0, name |-> "", state |-> "no_host"]>>

\* The entries the scan may report for the k-th scanned port.
PortEntries(k) ==
    {[portid |-> ScanPorts[k], name |-> n, state |-> st] :
        n \in ReportedNamesOf(ScanPorts[k]), st \in PortStates}

\* scanner[hostIp]["ports"]: one entry per scanned port, in the scan's order.
RECURSIVE ScansUpTo(_)
ScansUpTo(n) ==
    IF n = 0 THEN {<<>>}
    ELSE {Append(r, e) : r \in ScansUpTo(n - 1), e \in PortEntries(n)}

ScanResults == ScansUpTo(MaxPorts)

\* What scan_host(hostIp, instanceId) may return: None, or the results of the
\* scan; nmap has no target to report on when the host is the empty string.
ScanHost(hostIp) ==
    IF hostIp = "" THEN {NoScan, NoHostEntry} ELSE ScanResults \cup {NoScan}

\* str.upper() on the reported names.
Upper(name) ==
    CASE name = "ssh" -> "SSH"
      [] name = "splunkd" -> "SPLUNKD"
      [] OTHER -> name

\* serviceName, lines 108-118 and 278-288.
ServiceNameOf(p) ==
    IF p.portid = 8089 THEN "SPLUNKD"
    ELSE IF p.portid = 10250 THEN "KUBERNETES-API"
    ELSE IF p.portid = 5672 THEN "RABBITMQ"
    ELSE IF p.portid = 4040 THEN "SPARK-WEBUI"
    ELSE Upper(p.name)

\* cluster["ClusterArn"], instanceArn (built from i["InstanceId"]), lb["LoadBalancerArn"]
ResourceArn(service, r) == [service |-> service, resource |-> r]

\* What a finding was computed from: the attribute its verdict tests, the value
\* read, and for the scans the port and the serviceName of the check's title.
Evidence(attr, value, port, service) ==
    [attr |-> attr, value |-> value, port |-> port, service |-> service]

\* Variant: the failing branch of the EC2 check archives its finding.
Ec2PortFailingArchived(arn, serviceName, t, ev) ==
    [check |-> "ec2_attack_surface_open_tcp_port_check", Resource |-> arn,
     Id |-> [arn |-> arn, suffix |-> <<"attack-surface-ec2-open", serviceName, "check">>],
     FirstObservedAt |-> t, CreatedAt |-> t, UpdatedAt |-> t,
     Severity |-> "HIGH", Compliance |-> "FAILED",
     Workflow |-> "NEW", RecordState |-> "ARCHIVED", evidence |-> ev]

\* Variant: the failing branch of the at-rest check builds an Id of its own.
DaxAtRestFailingOwnId(arn, t, ev) ==
    [check |-> "dax_encryption_at_rest_check", Resource |-> arn,
     Id |-> [arn |-> arn, suffix |-> <<"dax-encryption-at-rest-check", "failed">>],
     FirstObservedAt |-> t, CreatedAt |-> t, UpdatedAt |-> t,
     Severity |-> "HIGH", Compliance |-> "FAILED",
     Workflow |-> "NEW", RecordState |-> "ACTIVE", evidence |-> ev]

\* The finding dicts of the eight branches, with the fields the claims are about.
DaxAtRestFailing(arn, t, ev) ==
    [check |-> "dax_encryption_at_rest_check", Resource |-> arn,
     Id |-> [arn |-> arn, suffix |-> <<"dax-encryption-at-rest-check">>],
     FirstObservedAt |-> t, CreatedAt |-> t, UpdatedAt |-> t,
     Severity |-> "HIGH", Compliance |-> "FAILED",
     Workflow |-> "NEW", RecordState |-> "ACTIVE", evidence |-> ev]

DaxAtRestPassing(arn, t, ev) ==
    [check |-> "dax_encryption_at_rest_check", Resource |-> arn,
     Id |-> [arn |-> arn, suffix |-> <<"dax-encryption-at-rest-check">>],
     FirstObservedAt |-> t, CreatedAt |-> t, UpdatedAt |-> t,
     Severity |-> "INFORMATIONAL", Compliance |-> "PASSED",
     Workflow |-> "RESOLVED", RecordState |-> "ARCHIVED", evidence |-> ev]

DaxInTransitFailing(arn, t, ev) ==
    [check |-> "dax_encryption_in_transit_check", Resource |-> arn,
     Id |-> [arn |-> arn, suffix |-> <<"dax-encryption-in-transit-check">>],
     FirstObservedAt |-> t, CreatedAt |-> t, UpdatedAt |-> t,
     Severity |-> "HIGH", Compliance |-> "FAILED",
     Workflow |-> "NEW", RecordState |-> "ACTIVE", evidence |-> ev]

DaxInTransitPassing(arn, t, ev) ==
    [check |-> "dax_encryption_in_transit_check", Resource |-> arn,
     Id |-> [arn |-> arn, suffix |-> <<"dax-encryption-in-transit-check">>],
     FirstObservedAt |-> t, CreatedAt |-> t, UpdatedAt |-> t,
     Severity |-> "INFORMATIONAL", Compliance |-> "PASSED",
     Workflow |-> "RESOLVED", RecordState |-> "ARCHIVED", evidence |-> ev]

Ec2PortFailing(arn, serviceName, t, ev) ==
    [check |-> "ec2_attack_surface_open_tcp_port_check", Resource |-> arn,
     Id |-> [arn |-> arn, suffix |-> <<"attack-surface-ec2-open", serviceName, "check">>],
     FirstObservedAt |-> t, CreatedAt |-> t, UpdatedAt |-> t,
     Severity |-> "HIGH", Compliance |-> "FAILED",
     Workflow |-> "NEW", RecordState |-> "ACTIVE", evidence |-> ev]

Ec2PortPassing(arn, serviceName, t, ev) ==
    [check |-> "ec2_attack_surface_open_tcp_port_check", Resource |-> arn,
     Id |-> [arn |-> arn, suffix |-> <<"attack-surface-ec2-open", serviceName, "check">>],
     FirstObservedAt |-> t, CreatedAt |-> t, UpdatedAt |-> t,
     Severity |-> "INFORMATIONAL", Compliance |-> "PASSED",
     Workflow |-> "RESOLVED", RecordState |-> "ARCHIVED", evidence |-> ev]

Elbv2PortFailing(arn, serviceName, t, ev) ==
    [check |-> "elbv2_attack_surface_open_tcp_port_check", Resource |-> arn,
     Id |-> [arn |-> arn, suffix |-> <<"attack-surface-elbv2-open", serviceName, "check">>],
     FirstObservedAt |-> t, CreatedAt |-> t, UpdatedAt |-> t,
     Severity |-> "HIGH", Compliance |-> "FAILED",
     Workflow |-> "NEW", RecordState |-> "ACTIVE", evidence |-> ev]

Elbv2PortPassing(arn, serviceName, t, ev) ==
    [check |-> "elbv2_attack_surface_open_tcp_port_check", Resource |-> arn,
     Id |-> [arn |-> arn, suffix |-> <<"attack-surface-elbv2-open", serviceName, "check">>],
     FirstObservedAt |-> t, CreatedAt |-> t, UpdatedAt |-> t,
     Severity |-> "INFORMATIONAL", Compliance |-> "PASSED",
     Workflow |-> "RESOLVED", RecordState |-> "ARCHIVED", evidence |-> ev]

\* if cluster["SSEDescription"]["Status"] != ("ENABLING" or "ENABLED"):
SseFailing(status) == status # PyOr("ENABLING", "ENABLED")

\* if cluster["ClusterEndpointEncryptionType"] == "NONE":
InTransitFailing(encryptionType) == encryptionType = "NONE"

\* instanceLaunchedAt = str(i["BlockDeviceMappings"][0]["Ebs"]["AttachTime"])
\* inside try/except KeyError: a missing key is caught, the index 0 of an
\* empty list raises IndexError, which is not.
LaunchedAtRaises(mappings) == mappings = "empty"

\* if hostIp == ("" or None): continue  /  except KeyError: continue
NotPublic(hostIp) == hostIp = "absent" \/ hostIp = PyOr("", NoValue)

\* if (elbv2Scheme == 'internet-facing' and elbv2LbType == 'application'):
PublicAlb(scheme, type) == scheme = "internet-facing" /\ type = "application"

Range(q) == {q[k] : k \in 1..Len(q)}

NoAuditError == [type |-> "none", line |-> 0]

\* The findings of the inner loop over scanner[hostIp]["ports"].
Ec2PortFindings(arn, ports, t) ==
    [k \in 1..Len(ports) |->
        LET ev == Evidence("state", ports[k].state, ports[k].portid,
                              ServiceNameOf(ports[k]))
        IN IF ports[k].state = "open"
           THEN Ec2PortFailing(arn, ServiceNameOf(ports[k]), t, ev)
           ELSE Ec2PortPassing(arn, ServiceNameOf(ports[k]), t, ev)]

Elbv2PortFindings(arn, ports, t) ==
    [k \in 1..Len(ports) |->
        LET ev == Evidence("state", ports[k].state, ports[k].portid,
                              ServiceNameOf(ports[k]))
        IN IF ports[k].state = "open"
           THEN Elbv2PortFailing(arn, ServiceNameOf(ports[k]), t, ev)
           ELSE Elbv2PortPassing(arn, ServiceNameOf(ports[k]), t, ev)]

\* What is kept of an earlier finding: its identity, its verdict and its
\* timestamps.
Kept(f) ==
    [check |-> f.check, Resource |-> f.Resource, service |-> f.evidence.service,
     Id |-> f.Id, Compliance |-> f.Compliance,
     FirstObservedAt |-> f.FirstObservedAt, CreatedAt |-> f.CreatedAt,
     UpdatedAt |-> f.UpdatedAt]

\* The finding kept for comparison stays; while none is kept, one of the
\* findings just yielded may be.
RetainPrior ==
    prior' \in {prior} \cup (IF prior = {} THEN {{Kept(f)} : f \in Range(yielded)} ELSE {})

\* The loop body ended for one record with the findings `fs` yielded.
Yields(fs) ==
    /\ yielded' = fs
    /\ ai' = ai + 1
    /\ RetainPrior
    /\ UNCHANGED <<apc, aerror>>

\* The loop body ended for one record without a finding (continue).
Continues ==
    /\ yielded' = <<>>
    /\ ai' = ai + 1
    /\ RetainPrior
    /\ UNCHANGED <<apc, aerror>>

\* An exception no except clause matches leaves the generator.
Raises(type, line) ==
    /\ apc' = "raised"
    /\ aerror' = [type |-> type, line |-> line]
    /\ UNCHANGED <<ai, yielded, prior>>

\* A new audit run: a new process with an empty cache dict.
NewAuditRun ==
    /\ apc \in {"done", "raised"}
    /\ NoCheckInHelper
    /\ ran # {}
    /\ cache' = [k \in Keys |-> None]
    /\ fetchCount' = [k \in Keys |-> 0]
    /\ observed' = [k \in Keys |-> {}]
    /\ ran' = {}
    /\ apc' = "idle"
    /\ UNCHANGED <<cpc, ckey, response, fetched, ret, ncalls>>
    /\ UNCHANGED <<acheck, now, records, ai, yielded, aerror, prior, scanned>>
    /\ UNCHANGED remVars

\* A check function is called: it takes iso8601Time and calls its fetch
\* helper (each registered check runs once per audit run).
StartCheck ==
    /\ apc \in {"idle", "done", "raised"}
    /\ NoCheckInHelper
    /\ now < MaxEvaluations
    /\ \E c \in AuditChecks \ ran, l \in Listings :
          LET k == HelperKeyOf(c)
              payload == HelperReturn(k, l)
          IN /\ acheck' = c
             /\ ran' = ran \cup {c}
             /\ cache' = [cache EXCEPT ![k] = payload]
             /\ fetchCount' = [fetchCount EXCEPT ![k] = IF Truthy(cache[k]) THEN @ ELSE @ + 1]
             /\ observed' = [observed EXCEPT ![k] = @ \cup {payload}]
             /\ records' = payload.items
    /\ now' = now + 1
    /\ ai' = 0
    /\ apc' = "loop"
    /\ aerror' = NoAuditError
    /\ RetainPrior
    /\ yielded' = <<>>
    /\ scanned' = <<>>
    /\ UNCHANGED <<cpc, ckey, response, fetched, ret, ncalls>>
    /\ UNCHANGED remVars

\* for cluster in describe_clusters(cache)["Clusters"]: one iteration of
\* dax_encryption_at_rest_check (lines 43-167).
DaxEncryptionAtRestCheck ==
    /\ apc = "loop"
    /\ acheck = "dax_encryption_at_rest_check"
    /\ ai < Len(records)
    /\ \E status \in SSEStatuses, groups \in SecurityGroupCounts :
          LET arn == ResourceArn("dax", records[ai + 1])
              ev == Evidence("SSEDescription.Status", status, 0, "")
          IN IF groups = 0
             THEN Raises("IndexError", IF SseFailing(status) THEN 85 ELSE 146)
             ELSE IF SseFailing(status)
                  THEN Yields(<<DaxAtRestFailing(arn, now, ev)>>)
                  ELSE Yields(<<DaxAtRestPassing(arn, now, ev)>>)
    /\ UNCHANGED <<acheck, now, ran, records, scanned>>
    /\ UNCHANGED cacheVars
    /\ UNCHANGED remVars

\* One iteration of dax_encryption_in_transit_check (lines 174-308).
DaxEncryptionInTransitCheck ==
    /\ apc = "loop"
    /\ acheck = "dax_encryption_in_transit_check"
    /\ ai < Len(records)
    /\ \E encryptionType \in EndpointEncryptionTypes, groups \in SecurityGroupCounts :
          LET arn == ResourceArn("dax", records[ai + 1])
              ev == Evidence("ClusterEndpointEncryptionType", encryptionType, 0, "")
          IN IF groups = 0
             THEN Raises("IndexError", IF InTransitFailing(encryptionType) THEN 216 ELSE 282)
             ELSE IF InTransitFailing(encryptionType)
                  THEN Yields(<<DaxInTransitFailing(arn, now, ev)>>)
                  ELSE Yields(<<DaxInTransitPassing(arn, now, ev)>>)
    /\ UNCHANGED <<acheck, now, ran, records, scanned>>
    /\ UNCHANGED cacheVars
    /\ UNCHANGED remVars

\* for i in ec2_paginate(cache=cache): one iteration of
\* ec2_attack_surface_open_tcp_port_check (lines 78-247), the scan and the
\* loop over its ports included.
Ec2AttackSurfaceOpenTcpPortCheck ==
    /\ apc = "loop"
    /\ acheck = "ec2_attack_surface_open_tcp_port_check"
    /\ ai < Len(records)
    /\ \E raises \in {LaunchedAtRaises(m) : m \in BlockDeviceMappingsShapes},
          hostIp \in PublicIpAddresses :
          LET arn == ResourceArn("ec2", records[ai + 1])
          IN IF raises
             THEN Raises("IndexError", 86) /\ scanned' = <<>>
             ELSE IF NotPublic(hostIp)
                  THEN Continues /\ scanned' = <<>>
                  ELSE /\ scanned' = <<hostIp>>
                       /\ \E scanner \in ScanHost(hostIp) :
                             IF scanner = NoScan
                             THEN Continues
                             ELSE IF scanner = NoHostEntry
                                  THEN Raises("KeyError", 105)
                                  ELSE Yields(Ec2PortFindings(arn, scanner, now))
    /\ UNCHANGED <<acheck, now, ran, records>>
    /\ UNCHANGED cacheVars
    /\ UNCHANGED remVars

\* for lb in describe_load_balancers(cache)["LoadBalancers"]: one iteration
\* of elbv2_attack_surface_open_tcp_port_check (lines 255-417).
Elbv2AttackSurfaceOpenTcpPortCheck ==
    /\ apc = "loop"
    /\ acheck = "elbv2_attack_surface_open_tcp_port_check"
    /\ ai < Len(records)
    /\ \E public \in {PublicAlb(scheme, type) : scheme \in Schemes, type \in LbTypes} :
          LET arn == ResourceArn("elbv2", records[ai + 1])
          IN IF ~public
             THEN Continues /\ scanned' = <<>>
             ELSE /\ scanned' = <<DnsName>>
                  /\ \E scanner \in ScanHost(DnsName) :
                        IF scanner = NoScan
                        THEN Continues
                        ELSE Yields(Elbv2PortFindings(arn, scanner, now))
    /\ UNCHANGED <<acheck, now, ran, records>>
    /\ UNCHANGED cacheVars
    /\ UNCHANGED remVars

\* The for loop is exhausted: the generator ends.
CheckReturns ==
    /\ apc = "loop"
    /\ ai = Len(records)
    /\ apc' = "done"
    /\ UNCHANGED <<acheck, now, ran, records, ai, yielded, aerror, prior, scanned>>
    /\ UNCHANGED cacheVars
    /\ UNCHANGED remVars

AuditInit ==
    /\ apc = "idle"
    /\ acheck = "none"
    /\ now = 0
    /\ ran = {}
    /\ records = <<>>
    /\ ai = 0
    /\ yielded = <<>>
    /\ aerror = NoAuditError
    /\ prior = {}
    /\ scanned = <<>>

----------------------------------------------------------------------------
(* Specifications *)

Init == CacheInit /\ RemediationInit /\ AuditInit

\* One run of the auditors, the checks executed one after the other.
CacheSeqNext ==
    \/ \E p \in Checks, k \in Keys : SeqCallHelper(p, k)
    \/ \E p \in Checks : CacheGet(p)
    \/ \E p \in Checks : ProviderFetch(p)
    \/ \E p \in Checks : CacheStore(p)
    \/ \E p \in Checks : ReturnStored(p)

\* One run of the auditors, the checks executed as parallel tasks.
CacheConcNext ==
    \/ \E p \in Checks, k \in Keys : CallHelper(p, k)
    \/ \E p \in Checks : CacheGet(p)
    \/ \E p \in Checks : ProviderFetch(p)
    \/ \E p \in Checks : CacheStore(p)
    \/ \E p \in Checks : ReturnStored(p)

\* Invocations of the playbook's lambda_handler, one after the other.
RemediationNext ==
    \/ Invoke
    \/ NextFinding
    \/ NextResource
    \/ AssumeRole
    \/ CreateLogGroup
    \/ DescribeLogGroups
    \/ CreatePolicy
    \/ CreateRole
    \/ AttachRolePolicy
    \/ CreateFlowLogs
    \/ UpdateFindings

\* The statements of a started invocation: everything but the invocation itself.
HandlerStep ==
    \/ NextFinding
    \/ NextResource
    \/ AssumeRole
    \/ CreateLogGroup
    \/ DescribeLogGroups
    \/ CreatePolicy
    \/ CreateRole
    \/ AttachRolePolicy
    \/ CreateFlowLogs
    \/ UpdateFindings

CacheSeqSpec == Init /\ [][CacheSeqNext]_vars

\* One run of the auditors, the checks one after the other, with provider
\* calls that may raise.
CacheFaultNext ==
    \/ \E p \in Checks, k \in Keys : SeqCallHelper(p, k)
    \/ \E p \in Checks : CacheGet(p)
    \/ \E p \in Checks : ProviderFetch(p)
    \/ \E p \in Checks : FetchRaises(p)
    \/ \E p \in Checks : CacheStore(p)
    \/ \E p \in Checks : ReturnStored(p)

CacheFaultSpec == Init /\ [][CacheFaultNext]_vars
CacheConcSpec == Init /\ [][CacheConcNext]_vars
AuditNext ==
    \/ StartCheck
    \/ DaxEncryptionAtRestCheck
    \/ DaxEncryptionInTransitCheck
    \/ Ec2AttackSurfaceOpenTcpPortCheck
    \/ Elbv2AttackSurfaceOpenTcpPortCheck
    \/ CheckReturns
    \/ NewAuditRun

RemediationSpec == Init /\ [][RemediationNext]_vars
AuditSpec == Init /\ [][AuditNext]_vars

\* A started handler keeps executing: the interpreter runs the next statement,
\* and every client call returns or raises (the SDK's connect and read
\* timeouts turn a call that gets no answer into an exception).
RemediationFairSpec == RemediationSpec /\ WF_vars(HandlerStep)

----------------------------------------------------------------------------
(* Claims about the execution cache *)

\* C1: in one run in which the checks call the fetch helpers one after the
\* other, the provider fetch of every cache key is invoked at most once,
\* whatever payload the provider returns.
C1_FetchAtMostOnce == \A k \in Keys : fetchCount[k] <= 1

\* C2: once a key is stored its value is never replaced, and all checks that
\* request the key are handed the identical payload.
C2_SameSnapshot ==
    [][\A k \in Keys :
          /\ cache[k] # None => cache'[k] = cache[k]
          /\ Cardinality(observed'[k]) <= 1]_vars

\* C3: when checks run concurrently, the provider fetch behind
\* describe_clusters and describe_load_balancers is triggered only once in
\* every interleaving.
C3_SingleFlight ==
    /\ fetchCount["describe_clusters"] <= 1
    /\ fetchCount["describe_load_balancers"] <= 1

----------------------------------------------------------------------------
(* Claims about the remediation playbook *)

\* C4: a failed provisioning step is the last call of its pipeline (no later
\* step, no update_findings) and the handler has terminated with the error
\* that step raised.
C4_FailStop ==
    \A i \in CallIndexes :
        (calls[i].op \in Provisioning /\ ~Returned(calls[i])) =>
            /\ i = Len(calls)
            /\ pc = "raised"
            /\ error = [step |-> calls[i].op, kind |-> calls[i].err]

C4_Witness ==
    /\ pc = "raised"
    /\ error.step = "create_role"
    /\ Len(calls) >= 4
    /\ calls[Len(calls)].op = "create_role"

\* The artifact a successful creating call made is present in the account.
ArtifactExists(c) ==
    LET acct == aws[c.creds.account]
    IN CASE c.op = "create_log_group" -> c.args.logGroupName \in acct.logGroups
         [] c.op = "create_policy" -> PolicyExists(c.creds.account, c.args.PolicyName)
         [] c.op = "create_role" -> c.args.RoleName \in acct.roles
         [] c.op = "attach_role_policy" ->
                <<c.args.RoleName, c.args.PolicyArn>> \in acct.attached
         [] c.op = "create_flow_logs" -> Remediated(c.creds.account, c.pipeline.vpc)
         [] OTHER -> TRUE

PartialProgressKept ==
    \A i \in CallIndexes : Returned(calls[i]) => ArtifactExists(calls[i])

OnlyGrows ==
    \A a \in Accounts :
        /\ aws[a].logGroups \subseteq aws'[a].logGroups
        /\ aws[a].policies \subseteq aws'[a].policies
        /\ aws[a].roles \subseteq aws'[a].roles
        /\ aws[a].attached \subseteq aws'[a].attached
        /\ aws[a].flowLogs \subseteq aws'[a].flowLogs

\* C5: no step of the handler removes anything: the created resources only
\* grow, and after a failure at step k everything steps 1..k-1 created exists.
C5_NoRollback == [][OnlyGrows /\ PartialProgressKept']_vars

C5_Witness ==
    /\ pc = "raised"
    /\ error.step = "create_flow_logs"
    /\ LogGroupNameOf(vpcId) \in aws[creds.account].logGroups
    /\ PolicyExists(creds.account, PolicyNameOf(vpcId))
    /\ RoleNameOf(vpcId) \in aws[creds.account].roles
    /\ aws[creds.account].attached # {}
    /\ ~Remediated(creds.account, vpcId)

Reports == {i \in CallIndexes : calls[i].op = "update_findings"}

\* C6: update_findings is issued at most once per pipeline, only directly
\* after create_flow_logs returned (hence after all six steps returned), on
\* the originating finding's Id, with RecordState ARCHIVED and a note naming
\* the log group create_log_group made; a pipeline that is past the reporting
\* step has issued it exactly once.
C6_ExactlyOneReport ==
    /\ Cardinality(Reports) <= 1
    /\ \A i \in Reports :
          /\ i > 6
          /\ calls[i - 1].op = "create_flow_logs" /\ Returned(calls[i - 1])
          /\ \A op \in Provisioning :
                \E j \in 1..(i - 1) : calls[j].op = op /\ Returned(calls[j])
          /\ calls[i].args.Id = calls[i].pipeline.Id
          /\ calls[i].args.RecordState = "ARCHIVED"
          /\ \E j \in 1..(i - 1) :
                /\ calls[j].op = "create_log_group"
                /\ calls[i].args.NoteLogGroup = calls[j].args.logGroupName
    /\ (\E j \in CallIndexes : calls[j].op = "create_flow_logs" /\ Returned(calls[j]))
          => (pc = "update_findings" /\ Reports = {}) \/ Cardinality(Reports) = 1

\* A pipeline for VPC <<1>> reported, in an account that already holds the
\* log group of VPC <<1, 2>>, whose name starts with the same prefix.
C6_Witness ==
    /\ pc = "next_resource"
    /\ Len(calls) >= 7
    /\ calls[Len(calls)].op = "update_findings"
    /\ Returned(calls[Len(calls)])
    /\ calls[Len(calls)].pipeline.vpc = <<1>>
    /\ calls[Len(calls)].args.NoteLogGroup = LogGroupNameOf(<<1>>)
    /\ LogGroupNameOf(<<1, 2>>) \in aws[creds.account].logGroups

\* C7: a failed update_findings never makes the handler raise: the failure is
\* printed and the handler goes on with the next resource, so the outcome
\* differs from that of a failed provisioning step.
C7_ReportFailureSwallowed ==
    /\ pc = "raised" => error.step # "update_findings"
    /\ \A i \in Reports :
          ~Returned(calls[i]) =>
              /\ pc \in {"next_resource", "next_finding", "returned"}
              /\ printed # <<>>
              /\ printed[Len(printed)].step = "update_findings"

C7_Witness ==
    /\ pc = "returned"
    /\ Reports # {}
    /\ \A i \in Reports : ~Returned(calls[i])

\* C8: every provisioning call for a finding owned by another account comes
\* after a successful assume_role into the owner account, made for the same
\* resource, and uses the credentials that call returned.
C8_AssumeRoleFirst ==
    \A i \in CallIndexes :
        (calls[i].op \in Provisioning
            /\ calls[i].pipeline.AwsAccountId # masterAccountId) =>
            \E j \in 1..(i - 1) :
                /\ calls[j].op = "assume_role"
                /\ Returned(calls[j])
                /\ calls[j].args.account = calls[i].pipeline.AwsAccountId
                /\ calls[j].pipeline = calls[i].pipeline
                /\ calls[i].creds = calls[j].out

C8_Witness ==
    /\ finding.AwsAccountId = memberAccountId
    /\ pc = "update_findings"
    /\ Len(calls) = 7
    /\ calls[1].op = "assume_role"

\* C9: a finding of the caller's own account is remediated without any
\* assume_role call, with the ambient identity; any other finding with the
\* owner account's assumed credentials, whose session token is not empty.
C9_LocalOrAssumed ==
    \A i \in CallIndexes :
        /\ calls[i].op = "assume_role" =>
              calls[i].pipeline.AwsAccountId # masterAccountId
        /\ calls[i].op \in Provisioning =>
              IF calls[i].pipeline.AwsAccountId = masterAccountId
              THEN calls[i].creds = Ambient
              ELSE /\ calls[i].creds.account = calls[i].pipeline.AwsAccountId
                   /\ calls[i].creds.token # <<>>

C9_Witness ==
    /\ finding.AwsAccountId = masterAccountId
    /\ pc = "update_findings"
    /\ Len(calls) = 6
    /\ \A i \in CallIndexes : calls[i].creds = Ambient

\* C10: an invocation for an already remediated VPC short-circuits at an
\* existence check (no creation is attempted on an existing artifact) or ends
\* with a result that tells "already remediated" apart: if the handler ends
\* at create_log_group because the log group exists, the VPC's flow logs are
\* in place.
C10_AlreadyRemediatedSignal ==
    (/\ pc = "raised"
     /\ error = [step |-> "create_log_group", kind |-> "ResourceAlreadyExistsException"])
        => Remediated(creds.account, vpcId)


IsProvisioningCall(c) == c.op \in Provisioning

ProvisioningCalls == SelectSeq(calls, IsProvisioningCall)

\* C11: the provisioning calls of one pipeline occur in the order
\* create_log_group, describe_log_groups, create_policy, create_role,
\* attach_role_policy, create_flow_logs: the k-th call is the k-th step (so
\* none is issued twice) and is made only after its predecessor returned.
C11_FixedOrder ==
    LET order == <<"create_log_group", "describe_log_groups", "create_policy",
                   "create_role", "attach_role_policy", "create_flow_logs">>
    IN /\ Len(ProvisioningCalls) <= Len(order)
       /\ \A k \in 1..Len(ProvisioningCalls) :
             /\ k <= Len(order)
             /\ ProvisioningCalls[k].op = order[k]
             /\ k > 1 => Returned(ProvisioningCalls[k - 1])

C11_Witness ==
    /\ pc = "update_findings"
    /\ Len(ProvisioningCalls) = 6
    /\ ProvisioningCalls[3].op = "create_policy"
    /\ ProvisioningCalls[4].op = "create_role"

\* C12: scoped credentials are not carried from one finding to the next: a
\* provisioning call made with assumed credentials uses a session token that
\* an assume_role into the owner account of its own finding returned while
\* that finding was being processed.
C12_CredentialsPerFinding ==
    \A i \in CallIndexes :
        (calls[i].op \in Provisioning /\ calls[i].creds # Ambient) =>
            /\ calls[i].creds.account = calls[i].pipeline.AwsAccountId
            /\ calls[i].creds.token # <<>>
            /\ calls[i].creds.token[1] = calls[i].pipeline.Id

\* The second finding of an event, owned by the member account like the
\* first, is provisioned with a token issued for the second finding.
C12_Witness ==
    /\ fi = 2
    /\ finding.AwsAccountId = memberAccountId
    /\ pc = "create_policy"
    /\ creds = AssumedCredentials(memberAccountId, 2, 1)
    /\ calls[Len(calls)].creds = creds
    /\ \E v \in Vpcs : LogGroupNameOf(v) \in aws[memberAccountId].logGroups /\ v # vpcId

\* The calls issued so far for the current finding, all its resources included.
FindingTally ==
    LET mine == {i \in CallIndexes : calls[i].pipeline.Id = finding.Id}
        count(ops) == Cardinality({i \in mine : calls[i].op \in ops})
    IN [assume_role |-> earlier.assume_role + count({"assume_role"}),
        provisioning |-> earlier.provisioning + count(Provisioning),
        update_findings |-> earlier.update_findings + count({"update_findings"})]

\* C13 as stated: when assume_role fails, it was attempted once for the
\* finding and no provisioning and no update_findings call was issued for
\* the finding.
C13_NothingForTheFinding ==
    (pc = "raised" /\ error.step = "assume_role") =>
        /\ FindingTally.assume_role = 1
        /\ FindingTally.provisioning = 0
        /\ FindingTally.update_findings = 0

\* C13 amended: when assume_role fails for a resource of a finding, the
\* failed call is the only call issued for that resource: it is not retried
\* and no provisioning and no update_findings call is issued for the resource.
C13_NothingForTheResource ==
    (pc = "raised" /\ error.step = "assume_role") =>
        /\ Len(calls) = 1
        /\ calls[1].op = "assume_role"
        /\ ~Returned(calls[1])
        /\ calls[1].pipeline.Id = finding.Id
        /\ calls[1].pipeline.vpc = vpcId

\* assume_role fails for the second resource of a finding whose first
\* resource was remediated and reported.
C13_Witness ==
    /\ pc = "raised"
    /\ error.step = "assume_role"
    /\ ri = 2
    /\ earlier.provisioning = 6
    /\ earlier.update_findings = 1


Abandoned(a, v) ==
    /\ LogGroupNameOf(v) \in aws[a].logGroups
    /\ ~Remediated(a, v)
    /\ ~(/\ pc \in {"describe_log_groups", "create_policy", "create_role",
                    "attach_role_policy", "create_flow_logs"}
         /\ creds.account = a
         /\ vpcId = v)

\* C20: once a run has failed after creating the log group, the VPC stays
\* unremediated for ever: every later pipeline for it ends at
\* create_log_group, which raises, so that no create_policy, create_role,
\* attach_role_policy, create_flow_logs or update_findings call follows.
C20_NeverCompleted ==
    [][\A a \in Accounts, v \in Vpcs :
          Abandoned(a, v) =>
              /\ Abandoned(a, v)'
              /\ (pc = "create_log_group" /\ creds.account = a /\ vpcId = v) =>
                    /\ pc' = "raised"
                    /\ error'.step = "create_log_group"
                    /\ calls'[Len(calls')].op = "create_log_group"
                    /\ ~Returned(calls'[Len(calls')])]_vars

\* A later run for a VPC whose first run failed half-way ended at
\* create_log_group on the already-exists error.
C20_Witness ==
    /\ pc = "raised"
    /\ error = [step |-> "create_log_group", kind |-> "ResourceAlreadyExistsException"]
    /\ PolicyExists(creds.account, PolicyNameOf(vpcId))
    /\ ~Remediated(creds.account, vpcId)

----------------------------------------------------------------------------
(* Claims about the auditor checks *)

PassingCombination(f) ==
    /\ f.Compliance = "PASSED"
    /\ f.Workflow = "RESOLVED"
    /\ f.RecordState = "ARCHIVED"
    /\ f.Severity = "INFORMATIONAL"

FailingCombination(f) ==
    /\ f.Compliance = "FAILED"
    /\ f.Workflow = "NEW"
    /\ f.RecordState = "ACTIVE"
    /\ f.Severity = "HIGH"

\* C14: every finding a check yields carries the passing combination
\* (PASSED, RESOLVED, ARCHIVED, INFORMATIONAL) or the failing combination
\* (FAILED, NEW, ACTIVE, HIGH), never a mix of the two.
C14_TwoCombinations ==
    \A f \in Range(yielded) : PassingCombination(f) \/ FailingCombination(f)

\* One scan yielded a failing finding for an open port and a passing finding
\* for a closed one.
C14_Witness ==
    /\ acheck = "ec2_attack_surface_open_tcp_port_check"
    /\ Len(yielded) = 2
    /\ yielded[1].evidence.value = "open" /\ FailingCombination(yielded[1])
    /\ yielded[2].evidence.value = "closed" /\ PassingCombination(yielded[2])

C16_FirstObservedAtPreserved ==
    \A p \in prior, f \in Range(yielded) :
        (f.Id = p.Id /\ f.CreatedAt > p.CreatedAt) =>
            f.FirstObservedAt = p.FirstObservedAt

\* C17: no check is left by an exception raised on a missing optional
\* attribute (an empty list of block device mappings or security groups).
C17_NoRaiseOnMissingAttribute ==
    ~(apc = "raised" /\ aerror.type = "IndexError")

\* C19: dax_encryption_at_rest_check yields PASSED exactly for the clusters
\* whose SSEDescription.Status is ENABLED or ENABLING, FAILED for the others.
C19_AtRestVerdict ==
    \A f \in Range(yielded) :
        f.check = "dax_encryption_at_rest_check" =>
            /\ f.evidence.value \in {"ENABLED", "ENABLING"} => f.Compliance = "PASSED"
            /\ f.evidence.value \notin {"ENABLED", "ENABLING"} => f.Compliance = "FAILED"

----------------------------------------------------------------------------
(* Claims about the step context and the log group *)

\* The returned call of operation `op` issued before call i for the same
\* finding and resource, if there is one.
EarlierReturned(i, op) ==
    {j \in 1..(i - 1) : /\ calls[j].op = op
                        /\ Returned(calls[j])
                        /\ calls[j].pipeline = calls[i].pipeline}

\* C21: attach_role_policy is called with the role name create_role returned
\* and the policy ARN create_policy returned for the same resource, and
\* create_flow_logs with the role ARN create_role returned and a log group
\* name describe_log_groups returned for the same resource.
C21_StepsConsumeOwnOutputs ==
    \A i \in CallIndexes :
        /\ calls[i].op = "attach_role_policy" =>
              /\ \E j \in EarlierReturned(i, "create_role") :
                    calls[i].args.RoleName = calls[j].out.RoleName
              /\ \E j \in EarlierReturned(i, "create_policy") :
                    calls[i].args.PolicyArn = calls[j].out.Arn
        /\ calls[i].op = "create_flow_logs" =>
              /\ \E j \in EarlierReturned(i, "create_role") :
                    calls[i].args.DeliverLogsPermissionArn = calls[j].out.Arn
              /\ \E j \in EarlierReturned(i, "describe_log_groups") :
                    \E k \in 1..Len(calls[j].out) :
                        calls[i].args.LogGroupName = calls[j].out[k].logGroupName

\* The second resource of a finding got its flow logs after the pipeline of
\* another VPC had left its outputs in the variables.
C21_Witness ==
    /\ ri = 2
    /\ Len(calls) >= 6
    /\ calls[Len(calls)].op = "create_flow_logs"
    /\ Returned(calls[Len(calls)])
    /\ \E v \in Vpcs : v # vpcId /\ Remediated(creds.account, v)

\* C22: the log group taken from the describe_log_groups response, whose ARN
\* goes into the policy and whose name goes into create_flow_logs and the
\* note, is the group 'VPCFlowLogs/<vpcId>' of the current resource, whatever
\* other groups the account holds.
C22_OwnLogGroup ==
    \A i \in CallIndexes :
        LET own == LogGroupNameOf(calls[i].pipeline.vpc)
        IN /\ calls[i].op = "create_policy" =>
                 calls[i].args.Resource = Arn(calls[i].creds.account, own)
           /\ calls[i].op = "create_flow_logs" => calls[i].args.LogGroupName = own
           /\ calls[i].op = "update_findings" => calls[i].args.NoteLogGroup = own

\* The account already held the group of a VPC whose id extends the current
\* VPC's id; the response listed both groups and the pipeline went on.
C22_Witness ==
    /\ pc = "update_findings"
    /\ vpcId = <<1>>
    /\ \E i \in CallIndexes :
          /\ calls[i].op = "describe_log_groups"
          /\ Len(calls[i].out) = 2
    /\ calls[Len(calls)].args.LogGroupName = LogGroupNameOf(<<1>>)

\* The last call issued for the current resource was assume_role or a
\* provisioning call, and it raised.
PipelineFailed ==
    /\ calls # <<>>
    /\ calls[Len(calls)].op \in Provisioning \cup {"assume_role"}
    /\ ~Returned(calls[Len(calls)])

\* C23: once assume_role or a provisioning step has failed, the invocation is
\* over: the loops take no further resource or finding and no further call is
\* issued; the only step left is a new invocation, which starts with an empty
\* call log.
C23_ErrorEndsInvocation ==
    [][PipelineFailed =>
          /\ pc = "raised"
          /\ fi' = 0 /\ ri' = 0 /\ calls' = <<>>
          /\ pc' \in {"next_finding", "raised"}]_vars

\* The first resource of the first finding failed at its third step; the
\* handler has not looked at any later resource or finding.
C23_Witness ==
    /\ pc = "raised"
    /\ fi = 1 /\ ri = 1
    /\ fi < MaxFindings /\ ri < MaxResources
    /\ PipelineFailed
    /\ calls[Len(calls)].op = "create_policy"

\* C27: update_findings is always issued with the function's own identity in
\* the caller account, on both branches; credentials obtained by assume_role
\* are used for provisioning calls (logs, iam, ec2 clients) only.
C27_ReportWithAmbientIdentity ==
    \A i \in CallIndexes :
        /\ calls[i].op = "update_findings" =>
              /\ calls[i].creds = Ambient
              /\ calls[i].creds.account = masterAccountId
        /\ calls[i].creds # Ambient => calls[i].op \in Provisioning

\* A finding of the member account was reported by the function's own
\* identity while the provisioning clients held assumed credentials.
C27_Witness ==
    /\ finding.AwsAccountId = memberAccountId
    /\ creds.account = memberAccountId
    /\ creds.token # <<>>
    /\ calls # <<>>
    /\ calls[Len(calls)].op = "update_findings"
    /\ calls[Len(calls)].creds = Ambient
    /\ \E i \in CallIndexes : calls[i].op = "create_flow_logs" /\ calls[i].creds = creds

\* The calls of the current resource without assume_role.
BranchCalls == SelectSeq(calls, LAMBDA c : c.op # "assume_role")

\* The branch that issued the calls of the log.
LogBranch ==
    IF NeedsAssumeRole(calls[1].pipeline.AwsAccountId, masterAccountId)
    THEN "cross_account" ELSE "local"

\* The call log follows the statements `steps`: the same operations in the
\* same order, a raising call is the last one, and it ends the invocation
\* exactly when the except block of its statement re-raises.
Follows(log, steps) ==
    /\ Len(log) <= Len(steps)
    /\ \A k \in 1..Len(log) :
          /\ log[k].op = steps[k].op
          /\ ~Returned(log[k]) =>
                /\ k = Len(log)
                /\ (steps[k].handler = "raise") <=> (pc = "raised")

\* C24: the two branches are the same program up to the clients: statement
\* by statement they issue the same call built from the same variables and
\* handle its failure alike, so what either branch does for a resource is what
\* the other branch's statements prescribe; assume_role is issued on the
\* cross-account branch only, as the first call.
C24_BranchesEquivalent ==
    /\ Len(CrossAccountSteps) = Len(LocalSteps)
    /\ \A k \in 1..Len(LocalSteps) : CrossAccountSteps[k] = LocalSteps[k]
    /\ calls # <<>> =>
          /\ Follows(BranchCalls, BranchSteps(OtherBranch(LogBranch)))
          /\ \A i \in CallIndexes :
                calls[i].op = "assume_role" => (i = 1 /\ LogBranch = "cross_account")

\* In one invocation the local branch and the cross-account branch have each
\* taken the same VPC through all steps, in the master and the member account.
C24_Witness ==
    /\ pc = "next_resource"
    /\ Len(BranchCalls) = Len(LocalSteps)
    /\ Remediated(masterAccountId, vpcId)
    /\ Remediated(memberAccountId, vpcId)

\* C25: ec2_attack_surface_open_tcp_port_check passes no instance to scan_host
\* whose PublicIpAddress is None or the empty string (an absent key leaves no
\* value to pass), and yields no finding for such an instance.
C25_NeverScansNonPublic ==
    acheck = "ec2_attack_surface_open_tcp_port_check" =>
        /\ \A k \in 1..Len(scanned) : scanned[k] \notin {"", NoValue}
        /\ yielded # <<>> => scanned # <<>>

\* A check whose last request ended with the provider's error finds a value
\* under that key only after the provider was invoked again.
RefetchedAfterError ==
    \A p \in Checks :
        (cpc[p] = "idle" /\ ret[p] = Raised /\ Truthy(cache[ckey[p]]))
            => fetchCount[ckey[p]] >= 2

\* C26: when the provider fetch of a helper raises, the cache is left as it
\* was with no entry under the key, the requesting check gets the error, and
\* a value appears under the key only through another provider fetch: the
\* next request of the key goes to the provider again.
C26_FetchErrorLeavesCache ==
    [][/\ \A p \in Checks :
            (cpc[p] = "fetch" /\ cpc'[p] = "idle") =>
                /\ cache' = cache
                /\ ~Truthy(cache'[ckey[p]])
                /\ ret'[p] = Raised
                /\ fetchCount'[ckey[p]] = fetchCount[ckey[p]] + 1
       /\ \A q \in Checks :
            (cpc[q] = "get" /\ \E p \in Checks \ {q} :
                                  cpc[p] = "idle" /\ ret[p] = Raised /\ ckey[p] = ckey[q]
                                  /\ ~Truthy(cache[ckey[q]]))
                => cpc'[q] = "fetch"
       /\ RefetchedAfterError']_vars

\* One check got the provider's error for a key, and the next check that
\* asked for the same key had the provider invoked a second time and
\* received the listing now stored.
C26_Witness ==
    \E p, q \in Checks :
        /\ p # q
        /\ NoCheckInHelper
        /\ ckey[p] = ckey[q]
        /\ ret[p] = Raised
        /\ fetchCount[ckey[q]] = 2
        /\ Truthy(cache[ckey[q]])
        /\ ret[q] = cache[ckey[q]]

\* C28: the findings an attack-surface check yields for one host have
\* pairwise distinct Ids: two different scanned ports never share an Id,
\* whatever service names the scan reports.
C28_DistinctIdsPerPort ==
    acheck \in {"ec2_attack_surface_open_tcp_port_check",
                "elbv2_attack_surface_open_tcp_port_check"} =>
        \A j, k \in 1..Len(yielded) :
            yielded[j].evidence.port # yielded[k].evidence.port
                => yielded[j].Id # yielded[k].Id

====
